---- MODULE Spec2Model ----
(***************************************************************************)
(* Model of the PostgreSQL map-block backend (src/database-postgresql.cpp) *)
(* and of the Buffer / SharedBuffer containers (src/util/pointer.h).       *)
(*                                                                         *)
(* Spec        : one writer driving Database_PostgreSQL against an engine  *)
(*               that may fail a statement or lose the connection.         *)
(* SpecShared  : SharedBuffer handles used from a single thread.           *)
(* SpecThreads : SharedBuffer handles of one storage used by several       *)
(*               threads, every memory access of the counter a step.       *)
(* SpecBuffer  : Buffer variables and their arrays, byte by byte.          *)
(* SpecContents: SharedBuffer variables with the contents of the storages. *)
(***************************************************************************)
EXTENDS Integers, Sequences, FiniteSets, TLC

VARIABLES
    \* ---- Database_PostgreSQL and the engine behind it
    conn,       \* the backend's PGconn: "none" (no backend constructed) | "ok" | "bad"
    liveConns,  \* PGconn objects obtained from PQconnectdb and not yet PQfinish-ed
    txn,        \* engine transaction state of the session: "idle" | "intrans" | "failed"
    committed,  \* rows of table "blocks" that are durable
    work,       \* rows of table "blocks" as the session sees them
    ret,        \* outcome of the last call on the backend
    saved,      \* per key: the latest successful save not followed by a save/delete of the key
    inBatch,    \* the caller is between a successful beginSave and its endSave
    \* ---- SharedBuffer, one thread
    handle,     \* per handle slot: dead, or (m_size, data, refcount) of a live SharedBuffer
    cell,       \* per storage: state of the "new unsigned int" counter and its value
    last,       \* the last SharedBuffer operation
    \* ---- SharedBuffer, several threads on one storage
    rc,         \* value of *refcount
    heap,       \* "live" | "freed": the counter and the data array
    frees,      \* how many times the storage was deleted
    uaf,        \* a thread touched *refcount after it was deleted
    trapped,    \* assert((*refcount) > 0) failed in some thread
    held,       \* per thread: number of live handles it owns
    pc,         \* per thread: position inside the running operation
    tmp,        \* per thread: the value read from *refcount
    op,         \* per thread: the operation that is running
    overlap,    \* two threads were inside a counter update at the same time
    \* ---- Buffer<T> and the contents of SharedBuffer<T>
    width,      \* sizeof(T)
    buffer,     \* per Buffer variable: dead, or (m_size, data) of a live Buffer
    arr,        \* per address: the array "new T[size]" returned there, as bytes
    sh,         \* per SharedBuffer variable: dead, or (m_size, data, refcount)
    store,      \* per address: the counter and the array of a SharedBuffer storage
    act         \* the last Buffer / SharedBuffer operation

dbVars == <<conn, liveConns, txn, committed, work, ret, saved, inBatch>>
sbVars == <<handle, cell, last>>
thVars == <<rc, heap, frees, uaf, trapped, held, pc, tmp, op, overlap>>
bufVars == <<width, buffer, arr, sh, store, act>>
vars == <<dbVars, sbVars, thVars, bufVars>>

-----------------------------------------------------------------------------
(* Bounds of the model *)

\* the engine accepts at most this many sessions at a time
MaxConns == 1

\* SharedBuffer variables of the single-threaded program
MaxHandles == 3

\* storages ("new unsigned int" counters with their arrays) the program allocates
MaxStorages == 2

\* largest size given to SharedBuffer(unsigned int size)
MaxSize == 1

\* SharedBuffer variables one thread has at a time
MaxHeld == 2

-----------------------------------------------------------------------------
(* Inputs *)

\* v3s16 positions the caller uses: two keys that differ in one coordinate only,
\* with both ends of the s16 range and a negative value among the coordinates
Keys == { <<-32768, 2, 32767>>, <<-32768, 2, -3>> }

\* payloads: the empty one and one with a zero byte embedded
Payloads == { <<>>, <<1, 0, 2>> }

\* what the engine does with one statement
Faults == { "none", "error", "lost" }

NoPos == <<>>

-----------------------------------------------------------------------------
(* Conversions between integers and their text *)

Digits == <<"0", "1", "2", "3", "4", "5", "6", "7", "8", "9">>

DigitVal == [c \in {Digits[i] : i \in 1..10} |-> (CHOOSE i \in 1..10 : Digits[i] = c) - 1]

IsDigit(c) == c \in DOMAIN DigitVal

RECURSIVE NatText(_)
NatText(n) ==
    IF n < 10 THEN <<Digits[n + 1]>>
    ELSE NatText(n \div 10) \o <<Digits[(n % 10) + 1]>>

\* itos(int): the decimal text of an integer, "-" first when negative
itos(i) == IF i < 0 THEN <<"-">> \o NatText(-i) ELSE NatText(i)

RECURSIVE AtoiDigits(_, _)
AtoiDigits(s, acc) ==
    IF s = <<>> \/ ~IsDigit(Head(s)) THEN acc
    ELSE AtoiDigits(Tail(s), acc * 10 + DigitVal[Head(s)])

\* atoi(const char *): optional sign, then digits up to the first other character
atoi(s) ==
    IF s = <<>> THEN 0
    ELSE IF Head(s) = "-" THEN -AtoiDigits(Tail(s), 0)
    ELSE IF Head(s) = "+" THEN AtoiDigits(Tail(s), 0)
    ELSE AtoiDigits(s, 0)

\* int assigned to an s16 member of v3s16
ToS16(v) == ((v + 32768) % 65536) - 32768

\* column type INTEGER: the engine reads a text parameter / writes a text result
IntegerIn(s) == atoi(s)
IntegerOut(v) == itos(v)

\* a char array read as a C string: the bytes before the first zero byte
RECURSIVE CString(_)
CString(b) ==
    IF b = <<>> \/ Head(b) = 0 THEN <<>> ELSE <<Head(b)>> \o CString(Tail(b))

\* one parameter of PQexecPrepared as the engine receives it:
\* format 1 (binary) passes `length` bytes, format 0 (text) passes a C string
ParamValue(bytes, length, format) ==
    IF format = 1 THEN SubSeq(bytes, 1, length) ELSE CString(bytes)

\* BIND_POS: params[0..2] are the decimal texts of pos.X, pos.Y, pos.Z
BIND_POS(pos) == <<itos(pos[1]), itos(pos[2]), itos(pos[3])>>

-----------------------------------------------------------------------------
(* The statements prepared by the constructor, as functions on table "blocks" *)

RowKey(r) == <<r.x, r.y, r.z>>

\* WHERE "x" = $1 AND "y" = $2 AND "z" = $3
Match(tbl, p) ==
    LET key == <<IntegerIn(p[1]), IntegerIn(p[2]), IntegerIn(p[3])>>
    IN  { r \in tbl : RowKey(r) = key }

\* variant of "save": a plain INSERT INTO "blocks", without the UPDATE in front of it
StmtSaveInsertOnly(tbl, p) ==
    tbl \cup {[x |-> IntegerIn(p[1]), y |-> IntegerIn(p[2]),
               z |-> IntegerIn(p[3]), data |-> p[4]]}

\* variant of "save": the WHERE clause of the UPDATE compares "x" and "y" only
StmtSaveXY(tbl, p) ==
    LET upsert == { r \in tbl : r.x = IntegerIn(p[1]) /\ r.y = IntegerIn(p[2]) }
        row    == [x |-> IntegerIn(p[1]), y |-> IntegerIn(p[2]),
                   z |-> IntegerIn(p[3]), data |-> p[4]]
    IN  IF upsert # {}
        THEN (tbl \ upsert) \cup { [r EXCEPT !.data = p[4]] : r \in upsert }
        ELSE tbl \cup {row}

\* "save": UPDATE ... RETURNING *; INSERT ... WHERE NOT EXISTS (SELECT * FROM upsert)
StmtSave(tbl, p) ==
    LET upsert == Match(tbl, p)
        row    == [x |-> IntegerIn(p[1]), y |-> IntegerIn(p[2]),
                   z |-> IntegerIn(p[3]), data |-> p[4]]
    IN  IF upsert # {}
        THEN (tbl \ upsert) \cup { [r EXCEPT !.data = p[4]] : r \in upsert }
        ELSE tbl \cup {row}

\* variant of "delete": the WHERE clause compares "x" and "y" only
StmtDeleteXY(tbl, p) ==
    { r \in tbl : ~(r.x = IntegerIn(p[1]) /\ r.y = IntegerIn(p[2])) }

\* "delete": DELETE FROM "blocks" WHERE ...
StmtDelete(tbl, p) == tbl \ Match(tbl, p)

\* every order in which the engine may return the rows of a set
Orders(S) ==
    { f \in [1..Cardinality(S) -> S] : \A i, j \in 1..Cardinality(S) : f[i] = f[j] => i = j }

\* PQexecPrepared on the session: the PGresult status and the engine state after
\* the statement. A lost connection and a closed session roll the open
\* transaction back; a failed statement inside a transaction aborts it, after
\* which only COMMIT is accepted, and COMMIT then rolls back.
Exec(name, p, fault) ==
    LET same == [res |-> "NULL", txn |-> txn, work |-> work, committed |-> committed,
                 conn |-> conn]
    IN  IF conn # "ok" THEN same
        ELSE IF fault = "lost"
        THEN [same EXCEPT !.res = "PGRES_FATAL_ERROR", !.txn = "idle",
                          !.work = committed, !.conn = "bad"]
        ELSE IF name = "end"
        THEN IF fault = "error"
             THEN [same EXCEPT !.res = "PGRES_FATAL_ERROR", !.txn = "idle",
                               !.work = committed]
             ELSE IF txn = "intrans"
             THEN [same EXCEPT !.res = "PGRES_COMMAND_OK", !.txn = "idle",
                               !.committed = work]
             ELSE [same EXCEPT !.res = "PGRES_COMMAND_OK", !.txn = "idle",
                               !.work = committed]
        ELSE IF txn = "failed"
        THEN [same EXCEPT !.res = "PGRES_FATAL_ERROR"]
        ELSE IF fault = "error"
        THEN [same EXCEPT !.res = "PGRES_FATAL_ERROR",
                          !.txn = IF txn = "intrans" THEN "failed" ELSE txn]
        ELSE IF name = "begin"
        THEN [same EXCEPT !.res = "PGRES_COMMAND_OK", !.txn = "intrans"]
        ELSE IF name \in {"save", "delete"}
        THEN LET tbl == IF name = "save" THEN StmtSave(work, p) ELSE StmtDelete(work, p)
             IN  [same EXCEPT !.res = "PGRES_COMMAND_OK", !.work = tbl,
                              !.committed = IF txn = "idle" THEN tbl ELSE committed]
        ELSE [same EXCEPT !.res = "PGRES_TUPLES_OK"]

\* PG_RES: throws FileNotGoodException when the result is NULL or has another status
PG_RES(res, wanted_res) == res = "NULL" \/ res # wanted_res

\* PG_RES_FREE, and PG_RES_NOFREE with the PQclear that follows it: PQclear is
\* reached only when PG_RES did not throw, so a result that is not NULL and has
\* another status than the wanted one is never cleared
PG_RES_FREE(res, wanted_res) == IF res # "NULL" /\ PG_RES(res, wanted_res) THEN 1 ELSE 0

Status(thrown) == IF thrown THEN "FileNotGoodException" ELSE "ok"

-----------------------------------------------------------------------------
(* Bookkeeping for the properties (not program state) *)

NoSave == [st |-> "none", data |-> <<>>]

\* op, pos: the call; data: the payload loadBlock returned; dst: the keys
\* listAllLoadableBlocks returned; status: "ok" or the exception thrown;
\* found: deleteBlock met a record of pos, saveBlock met one with another payload;
\* pre: the transaction state beginSave / endSave was called in; fault: what the
\* engine was made to do with the statement
\* unreleased: PGresult objects the call obtained and did not PQclear;
\* setting, contacted, stmts: of the constructor, whether the setting was there,
\* whether PQconnectdb was called and how many statements were sent
Ret(o, k, d, st, fnd, f, lst, unrel) ==
    [op |-> o, pos |-> k, data |-> d, status |-> st, found |-> fnd,
     pre |-> IF o \in {"begin", "end"} THEN txn ELSE "idle", fault |-> f, dst |-> lst,
     unreleased |-> unrel, setting |-> FALSE, contacted |-> FALSE, stmts |-> 0]

\* what the end of the engine transaction does to the saves made inside it
Settle(e) ==
    [k \in Keys |->
        IF saved[k].st = "pending" /\ e.txn = "idle"
        THEN [saved[k] EXCEPT !.st = IF e.res = "PGRES_COMMAND_OK" /\ txn = "intrans"
                                     THEN "durable" ELSE "undone"]
        ELSE saved[k]]

Engine(e) ==
    /\ txn' = e.txn
    /\ work' = e.work
    /\ committed' = e.committed
    /\ conn' = e.conn

-----------------------------------------------------------------------------
(* Database_PostgreSQL *)

\* statements the constructor executes after connecting: CREATE TABLE and six PREPAREs
NumOpenStatements == 7

\* variant of the constructor: PQstatus(conn) is not tested, the statements are
\* sent on a connection that is not open and the first of them fails
OpenRunNoStatusCheck(hasSetting, reachable, failAt) ==
    IF ~hasSetting
    THEN [status |-> "SettingNotFoundException", contacted |-> FALSE, stmts |-> 0,
          unreleased |-> 0]
    ELSE IF ~reachable
    THEN [status |-> "FileNotGoodException", contacted |-> TRUE, stmts |-> 1,
          unreleased |-> 0]
    ELSE IF failAt # 0
    THEN [status |-> "FileNotGoodException", contacted |-> TRUE, stmts |-> failAt,
          unreleased |-> 1]
    ELSE [status |-> "ok", contacted |-> TRUE, stmts |-> NumOpenStatements,
          unreleased |-> 0]

\* the constructor's path: conf.get throws SettingNotFoundException before
\* PQconnectdb is called; PQstatus(conn) != CONNECTION_OK throws
\* FileNotGoodException before any statement; each statement is PG_OK_FREE, the
\* rejected one throws and the ones after it are not sent
OpenRun(hasSetting, reachable, failAt) ==
    IF ~hasSetting
    THEN [status |-> "SettingNotFoundException", contacted |-> FALSE, stmts |-> 0,
          unreleased |-> 0]
    ELSE IF ~reachable
    THEN [status |-> "FileNotGoodException", contacted |-> TRUE, stmts |-> 0,
          unreleased |-> 0]
    ELSE IF failAt # 0
    THEN [status |-> "FileNotGoodException", contacted |-> TRUE, stmts |-> failAt,
          unreleased |-> PG_RES_FREE("PGRES_FATAL_ERROR", "PGRES_COMMAND_OK")]
    ELSE [status |-> "ok", contacted |-> TRUE, stmts |-> NumOpenStatements,
          unreleased |-> 0]

\* Database_PostgreSQL(const Settings &conf)
\*   hasSetting : postgresql_connection_info is set
\*   reachable  : PQstatus(conn) == CONNECTION_OK after PQconnectdb
\*   failAt     : index of the constructor statement the engine rejects, 0 for none
Database_PostgreSQL ==
    /\ conn = "none"
    /\ liveConns < MaxConns
    /\ \E hasSetting \in BOOLEAN, reachable \in BOOLEAN, failAt \in 0..NumOpenStatements :
        LET run == OpenRun(hasSetting, reachable, failAt)
        IN  /\ liveConns' = IF run.contacted THEN liveConns + 1 ELSE liveConns
            /\ conn' = IF run.status = "ok" THEN "ok" ELSE "none"
            /\ ret' = [Ret("open", NoPos, <<>>, run.status, FALSE,
                           IF ~hasSetting \/ run.status = "ok" THEN "none"
                           ELSE IF ~reachable THEN "unreachable" ELSE "error",
                           <<>>, run.unreleased)
                       EXCEPT !.setting = hasSetting, !.contacted = run.contacted,
                              !.stmts = run.stmts]
    /\ inBatch' = FALSE
    /\ UNCHANGED <<txn, committed, work, saved>>
    /\ UNCHANGED <<sbVars, thVars, bufVars>>

\* ~Database_PostgreSQL(): PQfinish(conn); the engine rolls an open transaction back
Destroy ==
    /\ conn # "none"
    /\ liveConns' = liveConns - 1
    /\ conn' = "none"
    /\ txn' = "idle"
    /\ work' = committed
    /\ saved' = [k \in Keys |-> IF saved[k].st = "pending"
                                THEN [saved[k] EXCEPT !.st = "undone"] ELSE saved[k]]
    /\ ret' = Ret("close", NoPos, <<>>, "ok", FALSE, "none", <<>>, 0)
    /\ inBatch' = FALSE
    /\ UNCHANGED committed
    /\ UNCHANGED <<sbVars, thVars, bufVars>>

\* variant of beginSave: it executes statement "end" in place of "begin"
beginSaveExecutesEnd ==
    /\ conn # "none"
    /\ \E f \in Faults :
        LET e      == Exec("end", <<>>, f)
            thrown == PG_RES(e.res, "PGRES_COMMAND_OK")
        IN  /\ Engine(e)
            /\ saved' = Settle(e)
            /\ ret' = Ret("begin", NoPos, <<>>, Status(thrown), FALSE, f, <<>>,
                          PG_RES_FREE(e.res, "PGRES_COMMAND_OK"))
            /\ inBatch' = IF thrown THEN inBatch ELSE TRUE
    /\ UNCHANGED liveConns
    /\ UNCHANGED <<sbVars, thVars, bufVars>>

\* beginSave(): PG_OK_FREE(PQexecPrepared(conn, "begin", ...))
beginSave ==
    /\ conn # "none"
    /\ \E f \in Faults :
        LET e      == Exec("begin", <<>>, f)
            thrown == PG_RES(e.res, "PGRES_COMMAND_OK")
        IN  /\ Engine(e)
            /\ saved' = Settle(e)
            /\ ret' = Ret("begin", NoPos, <<>>, Status(thrown), FALSE, f, <<>>,
                          PG_RES_FREE(e.res, "PGRES_COMMAND_OK"))
            /\ inBatch' = IF thrown THEN inBatch ELSE TRUE
    /\ UNCHANGED liveConns
    /\ UNCHANGED <<sbVars, thVars, bufVars>>

\* endSave(): PG_OK_FREE(PQexecPrepared(conn, "end", ...))
endSave ==
    /\ conn # "none"
    /\ \E f \in Faults :
        LET e      == Exec("end", <<>>, f)
            thrown == PG_RES(e.res, "PGRES_COMMAND_OK")
        IN  /\ Engine(e)
            /\ saved' = Settle(e)
            /\ ret' = Ret("end", NoPos, <<>>, Status(thrown), FALSE, f, <<>>,
                          PG_RES_FREE(e.res, "PGRES_COMMAND_OK"))
    /\ inBatch' = FALSE
    /\ UNCHANGED liveConns
    /\ UNCHANGED <<sbVars, thVars, bufVars>>

\* deleteBlock(pos): the parameters handed to statement "delete"
DeleteParams(pos) == BIND_POS(pos)

deleteBlock ==
    /\ conn # "none"
    /\ \E pos \in Keys, f \in Faults :
        LET e      == Exec("delete", DeleteParams(pos), f)
            thrown == PG_RES(e.res, "PGRES_COMMAND_OK")
        IN  /\ Engine(e)
            /\ saved' = IF thrown THEN Settle(e) ELSE [Settle(e) EXCEPT ![pos] = NoSave]
            /\ ret' = Ret("delete", pos, <<>>, Status(thrown),
                          Match(work, DeleteParams(pos)) # {}, f, <<>>,
                          PG_RES_FREE(e.res, "PGRES_COMMAND_OK"))
    /\ UNCHANGED <<liveConns, inBatch>>
    /\ UNCHANGED <<sbVars, thVars, bufVars>>

\* variant of saveBlock: the payload is passed as a text parameter (paramFormats[3] = 0)
SaveParamsAsText(pos, data) == BIND_POS(pos) \o <<ParamValue(data, Len(data), 0)>>

\* saveBlock(pos, data): params[3] = data.data(), paramLengths[3] = data.size(),
\* paramFormats[3] = 1
SaveParams(pos, data) == BIND_POS(pos) \o <<ParamValue(data, Len(data), 1)>>

saveBlock ==
    /\ conn # "none"
    /\ \E pos \in Keys, data \in Payloads, f \in Faults :
        LET e      == Exec("save", SaveParams(pos, data), f)
            thrown == PG_RES(e.res, "PGRES_COMMAND_OK")
        IN  /\ Engine(e)
            /\ saved' = IF thrown THEN Settle(e)
                        ELSE [Settle(e) EXCEPT ![pos] =
                                [st |-> IF e.txn = "idle" THEN "durable" ELSE "pending",
                                 data |-> data]]
            /\ ret' = Ret("save", pos, <<>>, Status(thrown),
                          \E r \in Match(work, SaveParams(pos, data)) : r.data # data,
                          f, <<>>, PG_RES_FREE(e.res, "PGRES_COMMAND_OK"))
    /\ UNCHANGED <<liveConns, inBatch>>
    /\ UNCHANGED <<sbVars, thVars, bufVars>>

\* variant of loadBlock: std::string(PQgetvalue(res, 0, 0)), without the length
LoadDataCString(tuples) ==
    IF Len(tuples) # 0 THEN CString(tuples[1]) ELSE <<>>

\* loadBlock: data stays empty when PQntuples(res) == 0, otherwise it is
\* std::string(PQgetvalue(res, 0, 0), PQgetlength(res, 0, 0)) of the binary result
LoadData(tuples) ==
    IF Len(tuples) # 0 THEN SubSeq(tuples[1], 1, Len(tuples[1])) ELSE <<>>

\* the values loadBlock can return for pos when statement "load" succeeds
LoadResults(pos) ==
    { LoadData([i \in 1..Len(ord) |-> ord[i].data]) :
        ord \in Orders(Match(work, BIND_POS(pos))) }

loadBlock ==
    /\ conn # "none"
    /\ \E pos \in Keys, f \in Faults :
        LET e      == Exec("load", BIND_POS(pos), f)
            thrown == PG_RES(e.res, "PGRES_TUPLES_OK")
        IN  /\ Engine(e)
            /\ saved' = Settle(e)
            /\ \E data \in (IF thrown THEN {<<>>} ELSE LoadResults(pos)) :
                ret' = Ret("load", pos, data, Status(thrown), FALSE, f, <<>>,
                           PG_RES_FREE(e.res, "PGRES_TUPLES_OK"))
    /\ UNCHANGED <<liveConns, inBatch>>
    /\ UNCHANGED <<sbVars, thVars, bufVars>>

\* variant of listAllLoadableBlocks: pos.Z is read from column 1 as pos.Y is
ListDstColumnSlip(tuples) ==
    [i \in 1..Len(tuples) |->
        <<ToS16(atoi(tuples[i][1])), ToS16(atoi(tuples[i][2])), ToS16(atoi(tuples[i][2]))>>]

\* listAllLoadableBlocks: one v3s16 per result row, each member atoi of its column
ListDst(tuples) ==
    [i \in 1..Len(tuples) |->
        <<ToS16(atoi(tuples[i][1])), ToS16(atoi(tuples[i][2])), ToS16(atoi(tuples[i][3]))>>]

listAllLoadableBlocks ==
    /\ conn # "none"
    /\ \E f \in Faults :
        LET e      == Exec("list", <<>>, f)
            thrown == PG_RES(e.res, "PGRES_TUPLES_OK")
            rows   == IF thrown THEN {} ELSE work
        IN  /\ Engine(e)
            /\ saved' = Settle(e)
            /\ \E ord \in Orders(rows) :
                LET tuples == [i \in 1..Len(ord) |->
                                <<IntegerOut(ord[i].x), IntegerOut(ord[i].y),
                                  IntegerOut(ord[i].z)>>]
                IN  ret' = Ret("list", NoPos, <<>>, Status(thrown), FALSE, f,
                               ListDst(tuples), PG_RES_FREE(e.res, "PGRES_TUPLES_OK"))
    /\ UNCHANGED <<liveConns, inBatch>>
    /\ UNCHANGED <<sbVars, thVars, bufVars>>

-----------------------------------------------------------------------------
(* SharedBuffer<T>, used from one thread *)

Handles == 1..MaxHandles
Storages == 1..MaxStorages

\* a SharedBuffer variable that is not constructed
Dead == [live |-> FALSE, m_size |-> 0, data |-> 0, refcount |-> 0]

\* a storage address that no "new" has returned yet
Unused == [st |-> "unused", count |-> 0, frees |-> 0, peak |-> 0]

InitShared ==
    /\ handle = [h \in Handles |-> Dead]
    /\ cell = [s \in Storages |-> Unused]
    /\ last = [op |-> "none", h |-> 0, src |-> 0, trap |-> FALSE, uaf |-> FALSE]

\* the addresses "new" can return: the unused ones, the lowest first
FreshStorage == CHOOSE s \in Storages : cell[s].st = "unused" /\ \A t \in Storages : cell[t].st = "unused" => s <= t

CanAllocate == \E s \in Storages : cell[s].st = "unused"

\* refcount = new unsigned int; (*refcount) = 1
NewCounter(cells, s) ==
    [cells EXCEPT ![s] = [st |-> "live", count |-> 1, frees |-> 0, peak |-> 1]]

\* variant of (*refcount)++: the counter is left as it is
ShareNoIncrement(cells, s) == cells

\* (*refcount)++ of the copy constructor and of operator=
Share(cells, s) ==
    [cells EXCEPT ![s].count = @ + 1,
                  ![s].peak = IF cells[s].count + 1 > @ THEN cells[s].count + 1 ELSE @]

\* assert((*refcount) > 0) of drop() fails
DropTraps(cells, s) == cells[s].st = "live" /\ cells[s].count = 0

\* variant of drop(): the storage is deleted while one handle is left,
\* if (*refcount <= 1)
DropDeleteAtOne(cells, s) ==
    IF cells[s].st # "live" THEN [cells EXCEPT ![s].frees = @ + 1]
    ELSE IF cells[s].count = 0 THEN cells
    ELSE IF cells[s].count - 1 <= 1
    THEN [cells EXCEPT ![s].count = @ - 1, ![s].st = "freed", ![s].frees = @ + 1]
    ELSE [cells EXCEPT ![s].count = @ - 1]

\* drop(): (*refcount)--; if (*refcount == 0) { delete[] data; delete refcount; }
\* On a counter that was deleted already the decrement works on freed memory;
\* the outcome taken here is the one that deletes again.
Drop(cells, s) ==
    IF cells[s].st # "live" THEN [cells EXCEPT ![s].frees = @ + 1]
    ELSE IF cells[s].count = 0 THEN cells
    ELSE IF cells[s].count - 1 = 0
    THEN [cells EXCEPT ![s].count = 0, ![s].st = "freed", ![s].frees = @ + 1]
    ELSE [cells EXCEPT ![s].count = @ - 1]

Last(o, h, src, cells, s) ==
    [op |-> o, h |-> h, src |-> src,
     trap |-> s # 0 /\ DropTraps(cells, s),
     uaf  |-> s # 0 /\ cells[s].st # "live"]

\* SharedBuffer() and SharedBuffer(unsigned int size)
Construct ==
    /\ ~last.trap
    /\ CanAllocate
    /\ \E h \in Handles, size \in 0..MaxSize :
        /\ ~handle[h].live
        /\ handle' = [handle EXCEPT ![h] =
                        [live |-> TRUE, m_size |-> size,
                         data |-> IF size # 0 THEN FreshStorage ELSE 0,
                         refcount |-> FreshStorage]]
        /\ cell' = NewCounter(cell, FreshStorage)
        /\ last' = Last("construct", h, 0, cell, 0)
    /\ UNCHANGED <<dbVars, thVars, bufVars>>

\* SharedBuffer(const SharedBuffer &buffer)
CopyConstruct ==
    /\ ~last.trap
    /\ \E h \in Handles, src \in Handles :
        /\ ~handle[h].live
        /\ handle[src].live
        /\ handle' = [handle EXCEPT ![h] = handle[src]]
        /\ cell' = Share(cell, handle[src].refcount)
        /\ last' = Last("copy", h, src, cell, 0)
    /\ UNCHANGED <<dbVars, thVars, bufVars>>

\* variant of operator=: without "if(this == &buffer) return *this;"
AssignNoSelfCheck ==
    /\ ~last.trap
    /\ \E h \in Handles, src \in Handles :
        /\ handle[h].live
        /\ handle[src].live
        /\ IF DropTraps(cell, handle[h].refcount)
           THEN /\ UNCHANGED <<handle, cell>>
                /\ last' = Last("assign", h, src, cell, handle[h].refcount)
           ELSE /\ handle' = [handle EXCEPT ![h] = handle[src]]
                /\ cell' = Share(Drop(cell, handle[h].refcount), handle[src].refcount)
                /\ last' = Last("assign", h, src, cell, handle[h].refcount)
    /\ UNCHANGED <<dbVars, thVars, bufVars>>

\* SharedBuffer & operator=(const SharedBuffer & buffer)
Assign ==
    /\ ~last.trap
    /\ \E h \in Handles, src \in Handles :
        /\ handle[h].live
        /\ handle[src].live
        /\ IF h = src
           THEN /\ UNCHANGED <<handle, cell>>
                /\ last' = Last("assign", h, src, cell, 0)
           ELSE IF DropTraps(cell, handle[h].refcount)
           THEN /\ UNCHANGED <<handle, cell>>
                /\ last' = Last("assign", h, src, cell, handle[h].refcount)
           ELSE /\ handle' = [handle EXCEPT ![h] = handle[src]]
                /\ cell' = Share(Drop(cell, handle[h].refcount), handle[src].refcount)
                /\ last' = Last("assign", h, src, cell, handle[h].refcount)
    /\ UNCHANGED <<dbVars, thVars, bufVars>>

\* ~SharedBuffer()
Destruct ==
    /\ ~last.trap
    /\ \E h \in Handles :
        /\ handle[h].live
        /\ IF DropTraps(cell, handle[h].refcount)
           THEN UNCHANGED <<handle, cell>>
           ELSE /\ handle' = [handle EXCEPT ![h] = Dead]
                /\ cell' = Drop(cell, handle[h].refcount)
        /\ last' = Last("destruct", h, 0, cell, handle[h].refcount)
    /\ UNCHANGED <<dbVars, thVars, bufVars>>

-----------------------------------------------------------------------------
(* SharedBuffer<T>: handles of one storage in two threads, no lock.  Each read *)
(* and each write of *refcount is a step of its own.                          *)

Threads == {1, 2}

MaxCount == Cardinality(Threads) * MaxHeld

InitThreads ==
    /\ rc = Cardinality(Threads)
    /\ heap = "live"
    /\ frees = 0
    /\ uaf = FALSE
    /\ trapped = FALSE
    /\ held = [t \in Threads |-> 1]
    /\ pc = [t \in Threads |-> "idle"]
    /\ tmp = [t \in Threads |-> 0]
    /\ op = [t \in Threads |-> "none"]
    /\ overlap = FALSE

Running == ~trapped /\ ~uaf

\* what a read of *refcount can give: its value, or anything once it is deleted
CounterValues == IF heap = "live" THEN {rc} ELSE 0..MaxCount

\* variant of (*refcount)--: the decremented value is not stored
DecrementedNotStored(v) == v

\* (*refcount)--
Decremented(v) == v - 1

\* a thread enters the copy constructor, the destructor, or operator= from
\* another of its handles
StartOp(t) ==
    /\ Running
    /\ pc[t] = "idle"
    /\ \E o \in {"copy", "drop", "assign"} :
        /\ o = "copy" => held[t] >= 1 /\ held[t] < MaxHeld
        /\ o = "drop" => held[t] >= 1
        /\ o = "assign" => held[t] >= 2
        /\ op' = [op EXCEPT ![t] = o]
        /\ pc' = [pc EXCEPT ![t] = IF o = "copy" THEN "inc_read" ELSE "dec_read"]
    /\ overlap' = (overlap \/ \E u \in Threads \ {t} : pc[u] # "idle")
    /\ UNCHANGED <<rc, heap, frees, uaf, trapped, held, tmp>>
    /\ UNCHANGED <<dbVars, sbVars, bufVars>>

\* drop(): assert((*refcount) > 0) and the read of (*refcount)--
DropRead(t) ==
    /\ Running
    /\ pc[t] = "dec_read"
    /\ \E v \in CounterValues :
        /\ trapped' = (v = 0)
        /\ tmp' = [tmp EXCEPT ![t] = v]
        /\ pc' = [pc EXCEPT ![t] = IF v = 0 THEN "dec_read" ELSE "dec_write"]
    /\ uaf' = (heap # "live")
    /\ UNCHANGED <<rc, heap, frees, held, op, overlap>>
    /\ UNCHANGED <<dbVars, sbVars, bufVars>>

\* drop(): the write of (*refcount)--
DropWrite(t) ==
    /\ Running
    /\ pc[t] = "dec_write"
    /\ rc' = IF heap = "live" THEN Decremented(tmp[t]) ELSE rc
    /\ uaf' = (heap # "live")
    /\ pc' = [pc EXCEPT ![t] = "test"]
    /\ tmp' = [tmp EXCEPT ![t] = 0]
    /\ UNCHANGED <<heap, frees, trapped, held, op, overlap>>
    /\ UNCHANGED <<dbVars, sbVars, bufVars>>

\* drop(): if (*refcount == 0) { delete[] data; delete refcount; }
DropTest(t) ==
    /\ Running
    /\ pc[t] = "test"
    /\ \E v \in CounterValues :
        /\ heap' = IF v = 0 THEN "freed" ELSE heap
        /\ frees' = IF v = 0 THEN frees + 1 ELSE frees
    /\ uaf' = (heap # "live")
    /\ IF op[t] = "drop"
       THEN /\ held' = [held EXCEPT ![t] = @ - 1]
            /\ pc' = [pc EXCEPT ![t] = "idle"]
            /\ op' = [op EXCEPT ![t] = "none"]
       ELSE /\ pc' = [pc EXCEPT ![t] = "inc_read"]
            /\ UNCHANGED <<held, op>>
    /\ UNCHANGED <<rc, trapped, tmp, overlap>>
    /\ UNCHANGED <<dbVars, sbVars, bufVars>>

\* copy constructor / operator=: the read of (*refcount)++
\* (the counter is kept within MaxCount: lost decrements let it grow without end)
ShareRead(t) ==
    /\ Running
    /\ pc[t] = "inc_read"
    /\ \E v \in CounterValues : v < MaxCount /\ tmp' = [tmp EXCEPT ![t] = v]
    /\ uaf' = (heap # "live")
    /\ pc' = [pc EXCEPT ![t] = "inc_write"]
    /\ UNCHANGED <<rc, heap, frees, trapped, held, op, overlap>>
    /\ UNCHANGED <<dbVars, sbVars, bufVars>>

\* copy constructor / operator=: the write of (*refcount)++
ShareWrite(t) ==
    /\ Running
    /\ pc[t] = "inc_write"
    /\ rc' = IF heap = "live" THEN tmp[t] + 1 ELSE rc
    /\ uaf' = (heap # "live")
    /\ held' = [held EXCEPT ![t] = IF op[t] = "copy" THEN @ + 1 ELSE @]
    /\ pc' = [pc EXCEPT ![t] = "idle"]
    /\ op' = [op EXCEPT ![t] = "none"]
    /\ tmp' = [tmp EXCEPT ![t] = 0]
    /\ UNCHANGED <<heap, frees, trapped, overlap>>
    /\ UNCHANGED <<dbVars, sbVars, bufVars>>

-----------------------------------------------------------------------------
(* Buffer<T> and the contents of SharedBuffer<T>.  An array of T is the      *)
(* sequence of its bytes, sizeof(T) bytes an element.                        *)

\* sizeof(T) of the element types the containers are instantiated with
Widths == {1, 2}

\* the values a byte takes
Bytes == {0, 1}

\* the Buffer variables and the SharedBuffer variables of the program
BufVars == {"x", "y"}
ShVars == {"a", "b"}

\* the addresses "new" returns, for the arrays and for the counters
Addrs == 1..Cardinality(BufVars)

ByteSeqs(n) == [1..n -> Bytes]

\* new T[size] of a type without constructor: the contents are indeterminate
NewArray(size) == ByteSeqs(size * width)

\* new T[size] that a memcpy of n bytes follows: the bytes memcpy overwrites do
\* not show and are taken as 0, the bytes after them are indeterminate
NewArrayFor(size, n) ==
    { g \in NewArray(size) : \A j \in DOMAIN g : j <= n => g[j] = 0 }

\* memset(data, 0, n)
memset(n) == [j \in 1..n |-> 0]

\* memcpy(dst, src, n): the first n bytes of dst become those of src
memcpy(dst, src, n) == [j \in DOMAIN dst |-> IF j <= n THEN src[j] ELSE dst[j]]

\* data[i] read from the array
Elem(bytes, i) == [j \in 1..width |-> bytes[i * width + j]]

\* data[i] = e
StoreElem(bytes, i, e) ==
    [j \in DOMAIN bytes |->
        IF i * width < j /\ j <= (i + 1) * width THEN e[j - i * width] ELSE bytes[j]]

\* an address with no array
NoArray == [st |-> "free", bytes |-> <<>>]

\* a Buffer variable that is not constructed; copyOf is not a member: it names the
\* Buffer the variable was last copy-constructed or assigned from
DeadBuffer == [live |-> FALSE, m_size |-> 0, data |-> 0, copyOf |-> ""]

NoAct == [op |-> "none", dst |-> "", src |-> "", i |-> 0, val |-> <<>>,
          trap |-> FALSE, bad |-> FALSE]

InitContainers ==
    /\ buffer = [v \in BufVars |-> DeadBuffer]
    /\ arr = [a \in Addrs |-> NoArray]
    /\ sh = [v \in ShVars |-> Dead]
    /\ store = [s \in Addrs |-> Unused]
    /\ act = NoAct

\* the address "new T[size]" returns: a free one, the lowest first
FreshArray(mem) ==
    CHOOSE a \in Addrs : mem[a].st = "free" /\ \A b \in Addrs : mem[b].st = "free" => a <= b

\* delete[] data; deleting the null pointer does nothing
DeleteArray(mem, a) == IF a = 0 THEN mem ELSE [mem EXCEPT ![a] = NoArray]

\* delete[] of an array that is not there
BadDelete(mem, a) == a # 0 /\ mem[a].st # "live"

\* the bytes behind the data pointer of Buffer variable v
BufferBytes(v) == IF buffer[v].data = 0 THEN <<>> ELSE arr[buffer[v].data].bytes

\* Buffer() and Buffer(size_t size): the elements are not initialised
BufferSized ==
    /\ \E v \in BufVars, size \in 0..MaxSize :
        /\ ~buffer[v].live
        /\ \E a \in {FreshArray(arr)}, garbage \in NewArray(size) :
            /\ buffer' = [buffer EXCEPT ![v] =
                            [live |-> TRUE, m_size |-> size,
                             data |-> IF size # 0 THEN a ELSE 0, copyOf |-> ""]]
            /\ arr' = IF size # 0
                      THEN [arr EXCEPT ![a] = [st |-> "live", bytes |-> garbage]]
                      ELSE arr
        /\ act' = [NoAct EXCEPT !.op = "BufferSized", !.dst = v]
    /\ UNCHANGED <<width, sh, store>>
    /\ UNCHANGED <<dbVars, sbVars, thVars>>

\* the array Buffer(const T *t, size_t size) fills: "data = new T[size]" and
\* memcpy(data, t, sizeof(T) * size), which writes every byte of it
CopyOf(t, size) ==
    memcpy(CHOOSE g \in NewArrayFor(size, width * size) : TRUE, t, width * size)

\* Buffer(const T *t, size_t size) constructing variable v
BufferOf(mem, v, t, size, from) ==
    LET a == FreshArray(mem)
    IN  [buffer |-> [buffer EXCEPT ![v] =
                        [live |-> TRUE, m_size |-> size,
                         data |-> IF size # 0 THEN a ELSE 0, copyOf |-> from]],
         arr    |-> IF size # 0
                    THEN [mem EXCEPT ![a] =
                            [st |-> "live",
                             bytes |-> CopyOf(t, size)]]
                    ELSE mem]

BufferFromArray ==
    /\ \E v \in BufVars, size \in 0..MaxSize :
        /\ ~buffer[v].live
        /\ \E t \in ByteSeqs(size * width) :
            /\ buffer' = BufferOf(arr, v, t, size, "").buffer
            /\ arr' = BufferOf(arr, v, t, size, "").arr
        /\ act' = [NoAct EXCEPT !.op = "BufferFromArray", !.dst = v]
    /\ UNCHANGED <<width, sh, store>>
    /\ UNCHANGED <<dbVars, sbVars, thVars>>

\* variant of the copy constructor: the data pointer is copied, not the array
BufferCopyShallow ==
    /\ \E v \in BufVars, src \in BufVars :
        /\ ~buffer[v].live
        /\ buffer[src].live
        /\ buffer' = [buffer EXCEPT ![v] = [buffer[src] EXCEPT !.copyOf = src]]
        /\ arr' = arr
        /\ act' = [NoAct EXCEPT !.op = "BufferCopy", !.dst = v, !.src = src]
    /\ UNCHANGED <<width, sh, store>>
    /\ UNCHANGED <<dbVars, sbVars, thVars>>

\* Buffer(const Buffer &buffer) : Buffer(buffer.data, buffer.m_size)
BufferCopy ==
    /\ \E v \in BufVars, src \in BufVars :
        /\ ~buffer[v].live
        /\ buffer[src].live
        /\ buffer' = BufferOf(arr, v, BufferBytes(src), buffer[src].m_size, src).buffer
        /\ arr' = BufferOf(arr, v, BufferBytes(src), buffer[src].m_size, src).arr
        /\ act' = [NoAct EXCEPT !.op = "BufferCopy", !.dst = v, !.src = src]
    /\ UNCHANGED <<width, sh, store>>
    /\ UNCHANGED <<dbVars, sbVars, thVars>>

\* resize(size) of Buffer variable v: nothing when the size is the same; otherwise
\* drop() when m_size != 0, "data = new T[size]" when size != 0, whose elements are
\* not initialised
resize(v, size, garbage) ==
    IF size = buffer[v].m_size THEN [buffer |-> buffer, arr |-> arr]
    ELSE LET dropped == IF buffer[v].m_size # 0
                        THEN DeleteArray(arr, buffer[v].data) ELSE arr
             a       == FreshArray(dropped)
         IN  [buffer |-> [buffer EXCEPT ![v].m_size = size,
                                        ![v].data = IF size # 0 THEN a ELSE 0],
              arr    |-> IF size # 0
                         THEN [dropped EXCEPT ![a] = [st |-> "live", bytes |-> garbage]]
                         ELSE dropped]

\* Buffer &operator=(const Buffer &buffer):
\*   if (this != &buffer) { resize(buffer.m_size);
\*                          memcpy(data, buffer.data, buffer.m_size); }
\* memcpy is given the number of elements as its number of bytes
BufferAssign ==
    /\ \E v \in BufVars, src \in BufVars :
        /\ buffer[v].live
        /\ buffer[src].live
        /\ IF v = src
           THEN UNCHANGED <<buffer, arr>>
           ELSE \E garbage \in NewArrayFor(buffer[src].m_size, buffer[src].m_size) :
                LET r == resize(v, buffer[src].m_size, garbage)
                    a == r.buffer[v].data
                IN  /\ buffer' = [r.buffer EXCEPT ![v].copyOf = src]
                    /\ arr' = IF a = 0 THEN r.arr
                              ELSE [r.arr EXCEPT ![a].bytes =
                                      memcpy(@, BufferBytes(src), buffer[src].m_size)]
        /\ act' = [NoAct EXCEPT !.op = "BufferAssign", !.dst = v, !.src = src]
    /\ UNCHANGED <<width, sh, store>>
    /\ UNCHANGED <<dbVars, sbVars, thVars>>

\* T &operator[](size_t i) const, and a store through the reference it returns;
\* the index is not checked, the caller keeps it below getSize()
BufferWrite ==
    /\ \E v \in BufVars, i \in 0..MaxSize, e \in ByteSeqs(width) :
        /\ buffer[v].live
        /\ i < buffer[v].m_size
        /\ arr' = [arr EXCEPT ![buffer[v].data].bytes = StoreElem(@, i, e)]
        /\ act' = [NoAct EXCEPT !.op = "BufferWrite", !.dst = v, !.i = i, !.val = e,
                                !.bad = arr[buffer[v].data].st # "live"]
    /\ UNCHANGED <<width, buffer, sh, store>>
    /\ UNCHANGED <<dbVars, sbVars, thVars>>

\* ~Buffer(): drop(), which is delete[] data
BufferDestruct ==
    /\ \E v \in BufVars :
        /\ buffer[v].live
        /\ buffer' = [buffer EXCEPT ![v] = DeadBuffer]
        /\ arr' = DeleteArray(arr, buffer[v].data)
        /\ act' = [NoAct EXCEPT !.op = "BufferDestruct", !.dst = v,
                                !.bad = BadDelete(arr, buffer[v].data)]
    /\ UNCHANGED <<width, sh, store>>
    /\ UNCHANGED <<dbVars, sbVars, thVars>>

-----------------------------------------------------------------------------
(* SharedBuffer<T> with its contents *)

\* the address "new unsigned int" returns: one that holds no counter, the lowest first
FreshCounter(cells) ==
    CHOOSE s \in Addrs : cells[s].st # "live" /\ \A t \in Addrs : cells[t].st # "live" => s <= t

\* the bytes behind the data pointer of SharedBuffer variable v
SharedBytes(v) == IF sh[v].data = 0 THEN <<>> ELSE arr[sh[v].data].bytes

\* a new storage for variable v: "new T[m_size]" holding bytes when size != 0,
\* "refcount = new unsigned int; (*refcount) = 1"
SharedOf(v, size, bytes) ==
    LET a == FreshArray(arr)
        s == FreshCounter(store)
    IN  [sh    |-> [sh EXCEPT ![v] = [live |-> TRUE, m_size |-> size,
                                      data |-> IF size # 0 THEN a ELSE 0,
                                      refcount |-> s]],
         arr   |-> IF size # 0 THEN [arr EXCEPT ![a] = [st |-> "live", bytes |-> bytes]]
                   ELSE arr,
         store |-> NewCounter(store, s)]

\* drop() of variable v: the counter after it, and the arrays after the
\* "delete[] data" it does when the counter reached zero
Dropped(v) ==
    LET cells == Drop(store, sh[v].refcount)
    IN  [store |-> cells,
         arr   |-> IF store[sh[v].refcount].st = "live" /\ cells[sh[v].refcount].st = "freed"
                   THEN DeleteArray(arr, sh[v].data) ELSE arr]

\* SharedBuffer() and SharedBuffer(unsigned int size): memset(data, 0, sizeof(T) * m_size)
SharedSized ==
    /\ ~act.trap
    /\ \E v \in ShVars, size \in 0..MaxSize :
        /\ ~sh[v].live
        /\ LET r == SharedOf(v, size, memset(width * size))
           IN  sh' = r.sh /\ arr' = r.arr /\ store' = r.store
        /\ act' = [NoAct EXCEPT !.op = "SharedSized", !.dst = v]
    /\ UNCHANGED <<width, buffer>>
    /\ UNCHANGED <<dbVars, sbVars, thVars>>

\* SharedBuffer(const T *t, unsigned int size): memcpy(data, t, m_size) into the
\* new array, whose other bytes stay indeterminate
SharedFromArray ==
    /\ ~act.trap
    /\ \E v \in ShVars, size \in 0..MaxSize :
        /\ ~sh[v].live
        /\ \E t \in ByteSeqs(size * width), garbage \in NewArrayFor(size, size) :
            /\ LET r == SharedOf(v, size, memcpy(garbage, t, size))
               IN  sh' = r.sh /\ arr' = r.arr /\ store' = r.store
            /\ act' = [NoAct EXCEPT !.op = "SharedFromArray", !.dst = v, !.val = t]
    /\ UNCHANGED <<width, buffer>>
    /\ UNCHANGED <<dbVars, sbVars, thVars>>

\* SharedBuffer(const Buffer<T> &buffer): m_size = buffer.getSize(),
\* memcpy(data, *buffer, buffer.getSize()); the Buffer is an argument of getSize
\* elements with bytes t
SharedFromBuffer ==
    /\ ~act.trap
    /\ \E v \in ShVars, getSize \in 0..MaxSize :
        /\ ~sh[v].live
        /\ \E t \in ByteSeqs(getSize * width), garbage \in NewArrayFor(getSize, getSize) :
            /\ LET r == SharedOf(v, getSize, memcpy(garbage, t, getSize))
               IN  sh' = r.sh /\ arr' = r.arr /\ store' = r.store
            /\ act' = [NoAct EXCEPT !.op = "SharedFromBuffer", !.dst = v, !.val = t]
    /\ UNCHANGED <<width, buffer>>
    /\ UNCHANGED <<dbVars, sbVars, thVars>>

\* SharedBuffer(const SharedBuffer &buffer)
SharedCopy ==
    /\ ~act.trap
    /\ \E v \in ShVars, src \in ShVars :
        /\ ~sh[v].live
        /\ sh[src].live
        /\ sh' = [sh EXCEPT ![v] = sh[src]]
        /\ store' = Share(store, sh[src].refcount)
        /\ act' = [NoAct EXCEPT !.op = "SharedCopy", !.dst = v, !.src = src]
    /\ UNCHANGED <<width, buffer, arr>>
    /\ UNCHANGED <<dbVars, sbVars, thVars>>

\* SharedBuffer & operator=(const SharedBuffer & buffer)
SharedAssign ==
    /\ ~act.trap
    /\ \E v \in ShVars, src \in ShVars :
        /\ sh[v].live
        /\ sh[src].live
        /\ IF v = src
           THEN /\ UNCHANGED <<sh, store, arr>>
                /\ act' = [NoAct EXCEPT !.op = "SharedAssign", !.dst = v, !.src = src]
           ELSE IF DropTraps(store, sh[v].refcount)
           THEN /\ UNCHANGED <<sh, store, arr>>
                /\ act' = [NoAct EXCEPT !.op = "SharedAssign", !.dst = v, !.src = src,
                                        !.trap = TRUE]
           ELSE /\ sh' = [sh EXCEPT ![v] = sh[src]]
                /\ store' = Share(Dropped(v).store, sh[src].refcount)
                /\ arr' = Dropped(v).arr
                /\ act' = [NoAct EXCEPT !.op = "SharedAssign", !.dst = v, !.src = src,
                                        !.bad = store[sh[v].refcount].st # "live"]
    /\ UNCHANGED <<width, buffer>>
    /\ UNCHANGED <<dbVars, sbVars, thVars>>

\* ~SharedBuffer()
SharedDestruct ==
    /\ ~act.trap
    /\ \E v \in ShVars :
        /\ sh[v].live
        /\ IF DropTraps(store, sh[v].refcount)
           THEN /\ UNCHANGED <<sh, store, arr>>
                /\ act' = [NoAct EXCEPT !.op = "SharedDestruct", !.dst = v, !.trap = TRUE]
           ELSE /\ sh' = [sh EXCEPT ![v] = Dead]
                /\ store' = Dropped(v).store
                /\ arr' = Dropped(v).arr
                /\ act' = [NoAct EXCEPT !.op = "SharedDestruct", !.dst = v,
                                        !.bad = store[sh[v].refcount].st # "live"]
    /\ UNCHANGED <<width, buffer>>
    /\ UNCHANGED <<dbVars, sbVars, thVars>>

\* assert(expr) of debug.h: the program goes on when expr holds and is aborted
\* when it does not
assert(expr) == IF expr THEN "continue" ELSE "abort"

\* variant of operator[]: assert(i <= m_size)
IndexUpToSize(v, i) == [trap |-> assert(i <= sh[v].m_size) = "abort", at |-> i]

\* T & operator[](unsigned int i) const: assert(i < m_size); return data[i];
Index(v, i) == [trap |-> assert(i < sh[v].m_size) = "abort", at |-> i]

\* what a read of data[i] gives: the element, or anything when i is outside the array
ReadAt(v, i) ==
    IF (i + 1) * width <= Len(SharedBytes(v)) THEN {Elem(SharedBytes(v), i)}
    ELSE ByteSeqs(width)

\* a read through operator[]
SharedRead ==
    /\ ~act.trap
    /\ \E v \in ShVars, i \in 0..MaxSize :
        /\ sh[v].live
        /\ \E val \in (IF Index(v, i).trap THEN {<<>>} ELSE ReadAt(v, Index(v, i).at)) :
            act' = [NoAct EXCEPT !.op = "SharedRead", !.dst = v, !.i = i, !.val = val,
                                 !.trap = Index(v, i).trap]
    /\ UNCHANGED <<width, buffer, arr, sh, store>>
    /\ UNCHANGED <<dbVars, sbVars, thVars>>

\* a store through the reference operator[] returns: the method is const and
\* returns T &, the array is the one every handle of the storage points to
SharedWrite ==
    /\ ~act.trap
    /\ \E v \in ShVars, i \in 0..MaxSize, e \in ByteSeqs(width) :
        /\ sh[v].live
        /\ IF Index(v, i).trap \/ sh[v].data = 0
           THEN arr' = arr
           ELSE arr' = [arr EXCEPT ![sh[v].data].bytes = StoreElem(@, Index(v, i).at, e)]
        /\ act' = [NoAct EXCEPT !.op = "SharedWrite", !.dst = v, !.i = i,
                                !.val = IF Index(v, i).trap THEN <<>> ELSE e,
                                !.trap = Index(v, i).trap]
    /\ UNCHANGED <<width, buffer, sh, store>>
    /\ UNCHANGED <<dbVars, sbVars, thVars>>

\* operator Buffer<T>() const: return Buffer<T>(data, m_size); the Buffer returned
\* is a value, its bytes are those memcpy(data, t, sizeof(T) * size) wrote
SharedToBuffer ==
    /\ ~act.trap
    /\ \E v \in ShVars :
        /\ sh[v].live
        /\ act' = [NoAct EXCEPT !.op = "SharedToBuffer", !.src = v,
                                !.i = sh[v].m_size,
                                !.val = CopyOf(SharedBytes(v), sh[v].m_size)]
    /\ UNCHANGED <<width, buffer, arr, sh, store>>
    /\ UNCHANGED <<dbVars, sbVars, thVars>>

-----------------------------------------------------------------------------
(* Specifications *)

InitDb ==
    /\ conn = "none"
    /\ liveConns = 0
    /\ txn = "idle"
    /\ committed = {}
    /\ work = {}
    /\ ret = [op |-> "none", pos |-> NoPos, data |-> <<>>, status |-> "ok",
              found |-> FALSE, pre |-> "idle", fault |-> "none", dst |-> <<>>,
              unreleased |-> 0, setting |-> FALSE, contacted |-> FALSE, stmts |-> 0]
    /\ saved = [k \in Keys |-> NoSave]
    /\ inBatch = FALSE

Init == InitDb /\ InitShared /\ InitThreads /\ InitContainers /\ width = 1

\* the containers instantiated with an element type of any of the widths
InitAnyWidth == InitDb /\ InitShared /\ InitThreads /\ InitContainers /\ width \in Widths


Next ==
    \/ Database_PostgreSQL
    \/ Destroy
    \/ beginSave
    \/ endSave
    \/ deleteBlock
    \/ saveBlock
    \/ loadBlock
    \/ listAllLoadableBlocks

Spec == Init /\ [][Next]_vars

NextShared ==
    \/ Construct
    \/ CopyConstruct
    \/ Assign
    \/ Destruct

SpecShared == Init /\ [][NextShared]_vars

NextThreads ==
    \E t \in Threads :
        \/ StartOp(t)
        \/ DropRead(t)
        \/ DropWrite(t)
        \/ DropTest(t)
        \/ ShareRead(t)
        \/ ShareWrite(t)

SpecThreads == Init /\ [][NextThreads]_vars

NextBuffer ==
    \/ BufferSized
    \/ BufferFromArray
    \/ BufferCopy
    \/ BufferAssign
    \/ BufferWrite
    \/ BufferDestruct

SpecBuffer == InitAnyWidth /\ [][NextBuffer]_vars

NextContents ==
    \/ SharedSized
    \/ SharedFromArray
    \/ SharedFromBuffer
    \/ SharedCopy
    \/ SharedAssign
    \/ SharedDestruct
    \/ SharedRead
    \/ SharedWrite
    \/ SharedToBuffer

SpecContents == InitAnyWidth /\ [][NextContents]_vars

-----------------------------------------------------------------------------
(* Properties of the backend *)

Ok(o) == ret.op = o /\ ret.status = "ok"

RowsOf(tbl, k) == { r \in tbl : RowKey(r) = k }

\* C1 as stated: a loadBlock(k) that returns gives exactly the payload of the
\* latest successful saveBlock(k, d), whenever no saveBlock or deleteBlock of k
\* came after that save.
RoundTripUnconditional ==
    Ok("load") /\ saved[ret.pos].st # "none" => ret.data = saved[ret.pos].data

\* C1 amended: the same, for a save that the engine has not rolled back (its
\* transaction is still open or was committed, or it ran outside a transaction).
RoundTrip ==
    Ok("load") /\ saved[ret.pos].st \in {"pending", "durable"}
        => ret.data = saved[ret.pos].data

RoundTripWitness ==
    /\ Ok("load")
    /\ saved[ret.pos].st = "durable"
    /\ ret.data = <<1, 0, 2>>

\* C2: each table holds at most one row per key, and right after a successful
\* saveBlock(k, d) there is exactly one row of k and loadBlock(k) returns d, also
\* when the save replaced a record with another payload.
UpsertUnique ==
    /\ \A tbl \in {work, committed} : \A r1, r2 \in tbl : RowKey(r1) = RowKey(r2) => r1 = r2
    /\ Ok("save") => /\ Cardinality(RowsOf(work, ret.pos)) = 1
                     /\ LoadResults(ret.pos) = {saved[ret.pos].data}

UpsertUniqueWitness ==
    /\ Ok("save")
    /\ ret.found
    /\ saved[ret.pos].data = <<1, 0, 2>>
    /\ Cardinality(work) = 2

\* C3 as stated: what loadBlock returned for a key without a record differs from
\* what loadBlock returns for a key whose record has a zero-length payload.
NotFoundDistinct ==
    Ok("load") /\ RowsOf(work, ret.pos) = {}
        => \A k \in Keys : (\E r \in RowsOf(work, k) : r.data = <<>>)
                              => ret.data \notin LoadResults(k)

\* C3 amended: loadBlock returns the stored payload of a key that has a record
\* and the empty string for a key that has none, so that not-found differs from
\* every stored payload except the zero-length one.
NotFoundIsEmpty ==
    Ok("load") => /\ RowsOf(work, ret.pos) = {} => ret.data = <<>>
                  /\ \A r \in RowsOf(work, ret.pos) : ret.data = r.data

NotFoundIsEmptyWitness ==
    /\ Ok("load")
    /\ RowsOf(work, ret.pos) = {}
    /\ \E r \in work : r.data # <<>>

\* C4: between a successful beginSave and its endSave no call changes the durable
\* table except an endSave that returns success, which makes it the batch's table
\* or leaves it as it was; when endSave throws or the connection is lost, the
\* session sees the table of before the batch again.
BatchAtomic ==
    [][ inBatch =>
          /\ ~(ret'.op = "end" /\ ret'.status = "ok") => committed' = committed
          /\ ret'.op = "end" /\ ret'.status = "ok"
                => committed' = work \/ committed' = committed
          /\ (ret'.op = "end" /\ ret'.status # "ok") \/ conn' # "ok"
                => work' = committed /\ committed' = committed ]_vars

BatchAtomicWitness ==
    /\ ret.op = "end"
    /\ ret.status # "ok"
    /\ conn = "ok"
    /\ \A k \in Keys : saved[k].st = "undone" /\ saved[k].data \notin LoadResults(k)

\* C5 as stated: beginSave succeeds only from idle (and leads to in-transaction),
\* endSave succeeds only from in-transaction (and leads to idle).
TxnOrderStrict ==
    /\ Ok("begin") => ret.pre = "idle" /\ txn = "intrans"
    /\ Ok("end") => ret.pre = "intrans" /\ txn = "idle"

\* C5 amended: a beginSave that succeeds leaves the session in a transaction and
\* an endSave that succeeds leaves it idle; beginSave inside a transaction and
\* endSave outside of one are accepted by a responsive engine and return success.
TxnOrder ==
    /\ Ok("begin") => ret.pre \in {"idle", "intrans"} /\ txn = "intrans"
    /\ Ok("end") => txn = "idle"
    /\ ret.op = "begin" /\ ret.pre = "intrans" /\ ret.fault = "none" /\ conn = "ok"
          => ret.status = "ok"
    /\ ret.op = "end" /\ ret.pre = "idle" /\ ret.fault = "none" /\ conn = "ok"
          => ret.status = "ok"

TxnOrderWitness ==
    /\ Ok("begin")
    /\ ret.pre = "intrans"
    /\ work # committed

\* C6: every PGconn obtained from PQconnectdb is released: the only live one is
\* the one of the constructed backend.
SessionReleased == liveConns = IF conn = "none" THEN 0 ELSE 1

\* C7: listAllLoadableBlocks returns every key that has a record exactly once,
\* with the coordinates that were saved.
ListComplete ==
    Ok("list") =>
        /\ \A i, j \in 1..Len(ret.dst) : ret.dst[i] = ret.dst[j] => i = j
        /\ { ret.dst[i] : i \in 1..Len(ret.dst) } = { RowKey(r) : r \in work }
        /\ \A i \in 1..Len(ret.dst) : ret.dst[i] \in Keys
        /\ \A k \in Keys : saved[k].st \in {"pending", "durable"}
                              => \E i \in 1..Len(ret.dst) : ret.dst[i] = k

ListCompleteWitness ==
    /\ Ok("list")
    /\ Len(ret.dst) = Cardinality(Keys)
    /\ \A k \in Keys : saved[k].st \in {"pending", "durable"}

\* C8: a deleteBlock(k) that a responsive engine executes returns success, removes
\* the record of k when there is one and nothing else, and changes no table when
\* k has no record.
DeleteNoop ==
    [][ ret'.op = "delete" /\ ret'.fault = "none" /\ conn = "ok" /\ txn # "failed"
          => /\ ret'.status = "ok"
             /\ work' = work \ RowsOf(work, ret'.pos)
             /\ committed' = IF txn = "idle" THEN work' ELSE committed
             /\ RowsOf(work, ret'.pos) = {} => work' = work /\ committed' = committed ]_vars

DeleteNoopWitness ==
    /\ Ok("delete")
    /\ ~ret.found
    /\ work # {}

\* C13: a constructor that finds no postgresql_connection_info throws
\* SettingNotFoundException without calling PQconnectdb and without sending a
\* statement; one that has the setting and finds the engine unreachable throws
\* FileNotGoodException, another exception, having sent no statement; neither
\* leaves a backend.
OpenFailsFast ==
    ret.op = "open" =>
        /\ ~ret.setting => /\ ret.status = "SettingNotFoundException"
                           /\ ~ret.contacted
                           /\ ret.stmts = 0
                           /\ conn = "none"
        /\ ret.setting /\ ret.fault = "unreachable" =>
                           /\ ret.status = "FileNotGoodException"
                           /\ ret.contacted
                           /\ ret.stmts = 0
                           /\ conn = "none"

OpenFailsFastWitness ==
    /\ ret.op = "open"
    /\ ret.setting
    /\ ret.fault = "unreachable"
    /\ ret.status = "FileNotGoodException"
    /\ conn = "none"

\* C15: when endSave returns without throwing, every saveBlock that returned
\* without throwing since the beginSave of the batch is durable, also when another
\* call of the batch threw in between.
CommitUnmasked ==
    [][ret'.op = "end" /\ ret'.status = "ok" =>
         \A k \in Keys : saved[k].st = "pending" => saved'[k].st = "durable"]_vars

\* C16: when a call returns or throws, every PGresult it obtained has been
\* released with PQclear.
ResultsReleased == ret.unreleased = 0

\* the rows of a table whose key is not k
RowsBut(tbl, k) == { r \in tbl : RowKey(r) # k }

\* C20: a saveBlock(k, d) or deleteBlock(k) that returns leaves the record of every
\* other key, one that differs from k in a coordinate at least, as it was: there
\* or not, and with the same payload; a loadBlock or listAllLoadableBlocks that
\* returns changes no record.
PerKeyFrame ==
    [][ret'.status = "ok" =>
         /\ ret'.op \in {"save", "delete"} =>
                /\ RowsBut(work', ret'.pos) = RowsBut(work, ret'.pos)
                /\ RowsBut(committed', ret'.pos) = RowsBut(committed, ret'.pos)
         /\ ret'.op \in {"load", "list"} =>
                /\ work' = work
                /\ committed' = committed]_vars

PerKeyFrameWitness ==
    /\ Ok("save")
    /\ ret.found
    /\ \E r \in work : RowKey(r) = ret.pos /\ r.data # <<>>
    /\ \E r \in work : RowKey(r) # ret.pos /\ r.data = <<>>

-----------------------------------------------------------------------------
(* Properties of SharedBuffer in one thread *)

Aliases(s) == { h \in Handles : handle[h].live /\ handle[h].refcount = s }

\* C9: the counter of a storage equals the number of live handles that alias it;
\* a storage with a live handle is not freed, a storage without one is freed,
\* and no storage is freed twice.
SharedOwnership ==
    /\ ~last.trap
    /\ ~last.uaf
    /\ \A s \in Storages :
        /\ cell[s].st = "unused" => Aliases(s) = {} /\ cell[s].frees = 0
        /\ cell[s].st = "live" => /\ cell[s].count = Cardinality(Aliases(s))
                                  /\ Aliases(s) # {}
                                  /\ cell[s].frees = 0
        /\ cell[s].st = "freed" => Aliases(s) = {} /\ cell[s].frees = 1

SharedOwnershipWitness ==
    /\ \E s \in Storages : cell[s].st = "freed" /\ cell[s].peak = MaxHandles
    /\ \E s \in Storages : cell[s].st = "live" /\ cell[s].count >= 2
    /\ last.op = "assign"

\* C19: an assignment from the handle itself or from a handle of the same storage
\* frees nothing and leaves the counter and the handles as they were; an assignment
\* from a handle of another storage takes one from the counter of the old storage,
\* which is freed exactly when that counter was 1, adds one to the counter of the
\* new storage, and leaves the target with the storage and the size of the source.
AssignAliasSafe ==
    [][last'.op = "assign" =>
         LET old == handle[last'.h].refcount
             new == handle[last'.src].refcount
         IN  /\ ~last'.trap
             /\ ~last'.uaf
             /\ IF old = new
                THEN cell' = cell /\ handle' = handle
                ELSE /\ cell'[old].count = cell[old].count - 1
                     /\ cell'[old].st = IF cell[old].count = 1 THEN "freed" ELSE "live"
                     /\ cell'[old].frees = IF cell[old].count = 1 THEN 1 ELSE 0
                     /\ cell'[new].count = cell[new].count + 1
                     /\ cell'[new].st = "live"
                     /\ cell'[new].frees = 0
                     /\ handle' = [handle EXCEPT ![last'.h] = handle[last'.src]]]_vars

AssignAliasSafeWitness ==
    /\ last.op = "assign"
    /\ last.h # last.src
    /\ handle[last.h] = handle[last.src]
    /\ cell[handle[last.h].refcount].count = MaxHandles
    /\ \E s \in Storages : cell[s].st = "freed" /\ cell[s].frees = 1

-----------------------------------------------------------------------------
(* Properties of SharedBuffer handles in two threads *)

\* C10 as stated: in every interleaving of the threads' copies, assignments and
\* drops the storage is freed exactly once: not twice, not while a handle is
\* live, not never, and the counter is not used after it was deleted.
LockFreeSafe ==
    /\ frees <= 1
    /\ ~uaf
    /\ ~trapped
    /\ heap = "freed" => \A t \in Threads : held[t] = 0
    /\ (\A t \in Threads : pc[t] = "idle" /\ held[t] = 0) => heap = "freed"
    /\ (\A t \in Threads : pc[t] = "idle") /\ heap = "live"
          => rc = held[1] + held[2]

\* C10 amended: the same, for the runs in which no operation on a handle starts
\* while an operation of the other thread is under way.
SerializedSafe == ~overlap => LockFreeSafe

SerializedSafeWitness ==
    /\ ~overlap
    /\ heap = "freed"
    /\ frees = 1
    /\ \A t \in Threads : held[t] = 0 /\ pc[t] = "idle"

-----------------------------------------------------------------------------
(* Properties of Buffer *)

\* what a Buffer variable shows: its size and its elements
BufferView(v) ==
    [live |-> buffer[v].live, m_size |-> buffer[v].m_size, bytes |-> BufferBytes(v)]

\* every live Buffer with elements has an array of m_size elements that no other
\* live Buffer points to
OwnArrays ==
    \A v \in BufVars :
        buffer[v].live /\ buffer[v].m_size # 0 =>
            /\ arr[buffer[v].data].st = "live"
            /\ DOMAIN arr[buffer[v].data].bytes = 1..(buffer[v].m_size * width)
            /\ \A w \in BufVars \ {v} : buffer[w].live => buffer[w].data # buffer[v].data

\* C11: after a copy construction or an assignment the two Buffers own disjoint
\* arrays; a store into an element of one changes neither the size nor the
\* contents of the other; the destruction of one leaves the other with its array
\* and its contents.
BufferValues ==
    [][/\ act'.op \in {"BufferCopy", "BufferAssign"} => OwnArrays'
       /\ act'.op \in {"BufferWrite", "BufferDestruct"} =>
              /\ ~act'.bad
              /\ OwnArrays'
              /\ \A v \in BufVars \ {act'.dst} : BufferView(v)' = BufferView(v)]_vars

BufferValuesWitness ==
    /\ act.op = "BufferWrite"
    /\ \E w \in BufVars \ {act.dst} :
          /\ buffer[act.dst].copyOf = w
          /\ buffer[w].live
          /\ buffer[w].m_size = buffer[act.dst].m_size
          /\ BufferBytes(w) # BufferBytes(act.dst)

\* C17: after a = b the two Buffers have the same size and the same elements,
\* for every element type, every size of b and every earlier size of a.
AssignCopiesAll ==
    act.op = "BufferAssign" =>
        /\ buffer[act.dst].m_size = buffer[act.src].m_size
        /\ BufferBytes(act.dst) = BufferBytes(act.src)

-----------------------------------------------------------------------------
(* Properties of the contents of SharedBuffer *)

\* C12 as stated: once a storage has two live handles or more, no operation on
\* one handle changes the bytes seen through another handle of the storage.
SharedImmutable ==
    [][\A v \in ShVars \ {act'.dst} :
          sh[v].live /\ store[sh[v].refcount].count >= 2 =>
              SharedBytes(v)' = SharedBytes(v)]_vars

\* C12 amended: the handles of a storage alias one array that stays writable: a
\* store through operator[] of one handle shows through every other handle of the
\* storage, as element i and nowhere else; every other operation on one handle
\* leaves the bytes seen through each other live handle as they were.
SharedWriteShows ==
    [][\A v \in ShVars \ {act'.dst} :
          sh[v].live =>
              /\ sh'[v] = sh[v]
              /\ store'[sh[v].refcount].st = "live"
              /\ IF /\ act'.op = "SharedWrite"
                    /\ ~act'.trap
                    /\ sh[v].refcount = sh[act'.dst].refcount
                 THEN SharedBytes(v)' = StoreElem(SharedBytes(v), act'.i, act'.val)
                 ELSE SharedBytes(v)' = SharedBytes(v)]_vars

SharedWriteShowsWitness ==
    /\ act.op = "SharedWrite"
    /\ ~act.trap
    /\ \A v \in ShVars : sh[v].live /\ sh[v].refcount = sh[act.dst].refcount
    /\ \E v \in ShVars \ {act.dst} :
          /\ Elem(SharedBytes(v), act.i) = act.val
          /\ SharedBytes(v) # memset(width * sh[v].m_size)

\* C14: operator[](i) aborts the program when i >= m_size, so for every i on a
\* handle of size 0, and gives element i of the storage when i < m_size.
IndexChecked ==
    act.op \in {"SharedRead", "SharedWrite"} =>
        /\ act.trap <=> act.i >= sh[act.dst].m_size
        /\ ~act.trap => Elem(SharedBytes(act.dst), act.i) = act.val

IndexCheckedWitness ==
    /\ act.op = "SharedRead"
    /\ act.trap
    /\ act.i = 0
    /\ sh[act.dst].live
    /\ sh[act.dst].m_size = 0

\* C18: a SharedBuffer constructed from an array or from a Buffer of N elements has
\* size N and holds all the bytes of the N elements, for every element type; the
\* Buffer a SharedBuffer converts to holds all the bytes of the SharedBuffer, so
\* that Buffer -> SharedBuffer -> Buffer gives the elements of the first Buffer.
SharedCopiesWhole ==
    /\ act.op \in {"SharedFromArray", "SharedFromBuffer"} =>
          /\ DOMAIN act.val = 1..(sh[act.dst].m_size * width)
          /\ SharedBytes(act.dst) = act.val
    /\ act.op = "SharedToBuffer" =>
          /\ act.i = sh[act.src].m_size
          /\ act.val = SharedBytes(act.src)

====
